---- MODULE Spec2Model ----
(***************************************************************************)
(* Model of the Metron talker (src/metron_talker/metron.py): the retrying  *)
(* HTTP access (_get_url_content, _get_metron_content), the paged series   *)
(* search (search_for_series) and the issue list of a series               *)
(* (fetch_issues_in_series), with the three families of the local cache.   *)
(*                                                                         *)
(* A list of upstream records is kept run-length encoded: an entry with    *)
(* rep = k stands for k consecutive copies of the same record, so that a   *)
(* page of 250 results is one entry.  len() of a list is ListLen.          *)
(*                                                                         *)
(* The upstream answers each GET as it likes (any status, any page), but   *)
(* it reports one count on all the pages of one call, that count is the    *)
(* size of the list the pages are cut from (so the pages never carry more  *)
(* than count records together), and it delivers at most MaxChunks         *)
(* entries during one call.                                                *)
(***************************************************************************)
EXTENDS Integers, Sequences, FiniteSets, TLC

VARIABLES
    searchCache,            \* ComicCacher search rows: search term -> list of series records
    seriesCache,            \* ComicCacher series table: id -> <<>> or <<[data, complete]>>
    issueCache,             \* ComicCacher issue table: id -> <<>> or <<[series_id, data, complete]>>
    op,                     \* public operation in flight or last finished
    args,                   \* its arguments
    pc,                     \* "idle", "request" (a GET is outstanding), "done", "raised"
    params,                 \* params of the outstanding request
    tries,                  \* loop variable of _get_url_content
    attempts,               \* GETs sent by the current _get_url_content call
    sleeps,                 \* time.sleep(1) calls of the current _get_url_content call
    status,                 \* status code of the last response, 0 before any
    resp,                   \* the last response of the upstream to this call
    progress,               \* invocations of the progress callback during this call
    met_response,           \* last decoded body
    search_results,         \* accumulator of search_for_series / series_issues_result
    current_result_count,
    total_result_count,
    requests,               \* page requests issued by this call
    result,                 \* value returned by the call
    err,                    \* error raised by the call
    calls,                  \* public calls started so far
    searched,               \* per search term, what the last search that completed on the
                            \* network wrote: "no" (none yet), "empty", or the mode of the
                            \* search that wrote rows, "literal" or "nonliteral"
    cacheAtCall,            \* the cache when the call in flight started
    settings,               \* the behaviour flags of the talker (set by parse_settings)
    entity,                 \* the upstream issue handed to the mapper, in both its shapes
    md_list,                \* GenericMetadata mapped from its list-shaped record
    md_detail,              \* GenericMetadata mapped from its detail-shaped record
    bucket,                 \* limiter: identity -> admissions per tick of the current window
    admitted,               \* entries into the rate-limited block per tick of the window
    callerPc,               \* per concurrent caller: position in the request path
    sent,                   \* HTTP GETs sent: from the request path (limited), by check_status (direct)
    acquired                \* admissions granted by the limiter

vars == <<searchCache, seriesCache, issueCache, op, args, pc, params, tries, attempts,
          sleeps, status, resp, progress, met_response, search_results,
          current_result_count, total_result_count, requests, result, err, calls, searched,
          cacheAtCall, settings, entity, md_list, md_detail, bucket, admitted,
          callerPc, sent, acquired>>

callvars == <<op, args, pc, params, tries, attempts, sleeps, status, resp, progress, met_response,
              search_results, current_result_count, total_result_count, requests,
              result, err, calls, searched, cacheAtCall>>

mapvars == <<entity, md_list, md_detail>>

limvars == <<bucket, admitted, callerPc, sent, acquired>>

caches == <<searchCache, seriesCache, issueCache>>

-----------------------------------------------------------------------------
(* Bounds of the model *)

MaxChunks == 2          \* entries the upstream delivers during one call
MaxRequests == 6        \* page requests followed within one call
MaxCalls == 2           \* public calls in one behaviour
MaxRoles == 2           \* roles declared for one creator
MaxCallers == 2         \* concurrent callers of the request path
MaxAcquired == 31       \* admissions followed in one behaviour
MaxChecks == 1          \* check_status calls in one behaviour

(* Program constants *)

max_results == 500
MaxTries == 3
DefaultThresh == 90
RateLimit == 30         \* RequestRate(30, Duration.MINUTE)
TicksPerWindow == 2     \* Duration.MINUTE, counted in half minutes

-----------------------------------------------------------------------------
(* Data *)

Min(a, b) == IF a < b THEN a ELSE b

RECURSIVE ListLen(_)
ListLen(s) == IF s = <<>> THEN 0 ELSE Head(s).rep + ListLen(Tail(s))

\* Series names are token sequences: words, articles, punctuation, quotes.
Names == { <<"batman">>, <<"The", "batman">> }

SeriesIds == {1, 2}
IssueIds == {11, 12}

\* MetSeriesList records as the series/ list endpoint returns them
MatchingSeries == [id |-> 1, series |-> "Batman (2016)", issue_count |-> 2, rep |-> 250]
OtherSeries == [id |-> 2, series |-> "Robin (1993)", issue_count |-> 1, rep |-> 251]
SeriesEntries == {MatchingSeries, OtherSeries}

SeqsUpTo(S, n) == UNION { [1..k -> S] : k \in 0..n }

SeriesPages == SeqsUpTo(SeriesEntries, 2)
Counts == {0, 250, 600}

\* MetIssueList records as the issue/ list endpoint returns them
ListSeries == [name |-> "Batman", volume |-> 3, year_began |-> 2016]
IssueEntries ==
    { [id |-> 11, number |-> "1", issue |-> "Batman (2016) #1", series |-> ListSeries,
       cover_date |-> "2016-06-15", image |-> "11.jpg"],
      [id |-> 12, number |-> "2", issue |-> "Batman (2016) #2", series |-> ListSeries,
       cover_date |-> "", image |-> "12.jpg"] }
IssuePages == SeqsUpTo(IssueEntries, 2)
IssueCounts == {0, 2, 3}

NoDetail == ""
IssueBodies == [detail : {NoDetail}, count : IssueCounts, results : IssuePages]
SeriesBodies == [detail : {NoDetail}, count : Counts, results : SeriesPages]
DetailBody == [detail |-> "Not found.", count |-> 0, results |-> <<>>]
NoBody == [detail |-> NoDetail, count |-> 0, results |-> <<>>]

NoErr == [code |-> -1, msg |-> ""]

\* exceptions that are no TalkerNetworkError: they carry no code of the talker
CacheWriteFailed == [code |-> -3, msg |-> "sqlite3.Error"]
TypeError == [code |-> -2, msg |-> "TypeError"]
IndexError == [code |-> -2, msg |-> "IndexError"]
NoArgs == [name |-> <<>>, callback |-> FALSE, literal |-> FALSE, refresh_cache |-> FALSE,
           series_match_thresh |-> DefaultThresh, series_id |-> 0, issue_id |-> 0,
           series_id_list |-> <<>>, issue_number |-> "", year |-> 0]

-----------------------------------------------------------------------------
(* Pure helpers *)

Casefold(t) == IF t = "The" THEN "the" ELSE t
Quotes == {"\""}
Punctuation == {"-"}
Articles == {"the", "a", "an", "of", "and"}

Without(s, dropped) == SelectSeq(s, LAMBDA t : t \notin dropped)

\* casefold, drop double quotes; unless basic: punctuation becomes white space
\* and the articles are removed
_sanitize_title(text, basic) ==
    LET folded == [i \in 1..Len(text) |-> Casefold(text[i])]
        unquoted == Without(folded, Quotes)
    IN IF basic THEN unquoted
       ELSE Without(Without(unquoted, Punctuation), Articles)

\* name actually searched for and used as the cache key
SearchSeriesName(series_name, literal) ==
    IF literal THEN series_name ELSE _sanitize_title(series_name, literal)

SearchTerms == { SearchSeriesName(n, l) : n \in Names, l \in BOOLEAN }

\* utils.titles_match: fuzzy ratio of the two sanitized titles against the threshold
Ratio(search, title) == IF title = "Batman (2016)" THEN 100 ELSE 30
titles_match(search, title, thresh) == Ratio(search, title) >= thresh

\* re.split(r"\(\d{4}\)$", ...)[0].strip()
StripYear(s) ==
    CASE s = "Batman (2016)" -> "Batman"
      [] s = "Robin (1993)" -> "Robin"
      [] OTHER -> s

FormatRecord(record) ==
    [id |-> record.id, name |-> StripYear(record.series),
     count_of_issues |-> record.issue_count, rep |-> record.rep]

_format_search_results(results) == [i \in 1..Len(results) |-> FormatRecord(results[i])]

\* variant: the negation is lost, the search stops on a page with a matching entry
StopSearchingOnMatch(name, results, thresh) ==
    \E i \in 1..Len(results) : titles_match(name, results[i].series, thresh)

\* any(not titles_match(...) for series in met_response["results"])
StopSearching(name, results, thresh) ==
    \E i \in 1..Len(results) : ~titles_match(name, results[i].series, thresh)

-----------------------------------------------------------------------------
(* ComicCacher as the talker uses it *)

get_search_results(term) == searchCache[term]

\* variant: the results of the search are not written
AddSearchRowsSkipped(cache, term, series_list) == cache

\* the rows of the term are replaced; every series is upserted, flagged as given
AddSearchRows(cache, term, series_list) == [cache EXCEPT ![term] = series_list]

RECURSIVE UpsertSeries(_, _, _)
UpsertSeries(cache, series_list, complete) ==
    IF series_list = <<>> THEN cache
    ELSE LET s == Head(series_list)
             row == [data |-> [id |-> s.id, series |-> s.series, issue_count |-> s.issue_count],
                     complete |-> complete]
         IN UpsertSeries([cache EXCEPT ![s.id] = <<row>>], Tail(series_list), complete)

\* the cached issue rows of a series, in id order
RECURSIVE RowsOf(_, _, _)
RowsOf(cache, ids, series_id) ==
    IF ids = {} THEN <<>>
    ELSE LET i == CHOOSE x \in ids : \A y \in ids : x <= y
             rest == RowsOf(cache, ids \ {i}, series_id)
         IN IF cache[i] # <<>> /\ cache[i][1].series_id = series_id
            THEN <<cache[i][1]>> \o rest ELSE rest

get_series_issues_info(series_id) == RowsOf(issueCache, IssueIds, series_id)

get_series_info(series_id) == seriesCache[series_id]

\* variant: the rows are flagged complete whatever the caller passes
RECURSIVE AddIssuesAsComplete(_, _, _, _)
AddIssuesAsComplete(cache, series_id, issues, complete) ==
    IF issues = <<>> THEN cache
    ELSE LET x == Head(issues)
             row == [series_id |-> series_id, data |-> x, complete |-> TRUE]
         IN AddIssuesAsComplete([cache EXCEPT ![x.id] = <<row>>], series_id,
                                Tail(issues), complete)

\* cvc.add_issues_info: a row per issue, keyed by its id, flagged as given
RECURSIVE add_issues_info(_, _, _, _)
add_issues_info(cache, series_id, issues, complete) ==
    IF issues = <<>> THEN cache
    ELSE LET x == Head(issues)
             row == [series_id |-> series_id, data |-> x, complete |-> complete]
         IN add_issues_info([cache EXCEPT ![x.id] = <<row>>], series_id, Tail(issues), complete)

-----------------------------------------------------------------------------
(* The mapper *)

\* Python's None, and a value that is not None
None == <<>>
Some(v) == <<v>>

\* dict.get(key, default)
Get(d, key, default) == IF key \in DOMAIN d THEN d[key] ELSE default

\* str() of the identifiers in use
ToStr(n) ==
    CASE n = 1 -> "1" [] n = 2 -> "2" [] n = 11 -> "11" [] n = 12 -> "12"

\* utils.xlate of a string: None for the empty string
xlate(text) == IF text = "" THEN None ELSE Some(text)

\* IssueString(number).as_string(), on the canonical numbers in use
IssueStringOf(number) == number

\* utils.parse_date_str: (day, month, year)
parse_date_str(date) ==
    CASE date = "2016-06-15" -> <<Some(15), Some(6), Some(2016)>>
      [] OTHER -> <<None, None, None>>

\* "; ".join(names)
Join(names) ==
    CASE names = <<"Part 1">> -> "Part 1"
      [] names = <<"Part 1", "Part 2">> -> "Part 1; Part 2"
      [] OTHER -> ""

\* day, month, year: the cover date when the issue has one; the branch for the
\* series' start year is inside the test that the cover date is there
CoverDate(issue, series) ==
    IF Get(issue, "cover_date", "") # ""
    THEN IF issue.cover_date # ""
         THEN parse_date_str(issue.cover_date)
         ELSE IF series.year_began # 0
              THEN <<None, None, Some(series.year_began)>>
              ELSE <<None, None, None>>
    ELSE <<None, None, None>>

\* md.format: the name of the series type, when the series has a type
Format(series) ==
    IF "series_type" \in DOMAIN series THEN xlate(series.series_type.name) ELSE None

\* the local series_type: set to -1 and never assigned again
SeriesTypeOf(series) == -1

\* MetronSeriesType.ongoing.value
ongoing == 1

\* md.issue_count: a non-zero issue_count of the series, unless the series type
\* is ongoing and the option is off
IssueCount(series) ==
    IF Get(series, "issue_count", 0) # 0
       /\ (SeriesTypeOf(series) # ongoing \/ settings.use_ongoing_issue_count)
    THEN Some(series.issue_count)
    ELSE None

\* variant: the collection title is kept when there are story titles as well
TitleKeepsCollection(issue) ==
    IF Get(issue, "title", "") # "" THEN xlate(issue.title)
    ELSE IF Get(issue, "name", <<>>) # <<>> THEN Some(Join(issue.name))
    ELSE None

\* md.title: the collection title, replaced by the joined story titles when there are any
Title(issue) ==
    IF Get(issue, "name", <<>>) # <<>> THEN Some(Join(issue.name))
    ELSE xlate(Get(issue, "title", ""))

\* variant: a creator without roles gets no credit
RolesOrNone(person) == [i \in 1..Len(person.role) |-> person.role[i].name]

\* the roles a creator is credited with: the declared ones, or one empty role
Roles(person) ==
    IF person.role # <<>> THEN [i \in 1..Len(person.role) |-> person.role[i].name]
    ELSE <<"">>

\* md.add_credit(person_name, role, False) for every role of every creator, in order
RECURSIVE Credits(_)
Credits(people) ==
    IF people = <<>> THEN <<>>
    ELSE LET person == Head(people)
             roles == Roles(person)
         IN [i \in 1..Len(roles) |->
                [person |-> Get(person, "creator", ""), role |-> roles[i], primary |-> FALSE]]
            \o Credits(Tail(people))

\* variant: the name of the rating is copied whatever it is
MaturityRatingAsGiven(issue) ==
    IF "rating" \in DOMAIN issue THEN Some(issue.rating.name) ELSE None

\* md.maturity_rating: the name of the rating of the issue, unless it is "Unknown"
MaturityRating(issue) ==
    IF "rating" \in DOMAIN issue /\ issue.rating.name # "Unknown"
    THEN Some(issue.rating.name)
    ELSE None

\* md.volume
Volume(series) ==
    IF settings.use_series_start_as_volume
    THEN IF "year_began" \in DOMAIN series THEN Some(series.year_began) ELSE None
    ELSE IF "volume" \in DOMAIN series THEN Some(series.volume) ELSE None

\* the GenericMetadata of an issue record, list-shaped or detail-shaped
_map_comic_issue_to_metadata(issue) ==
    LET series == issue.series
        date == CoverDate(issue, series)
    IN [issue_id |-> Some(ToStr(issue.id)),
        issue |-> xlate(IssueStringOf(issue.number)),
        series |-> xlate(series.name),
        series_id |-> IF Get(series, "id", 0) # 0 THEN Some(ToStr(series.id)) ELSE None,
        day |-> date[1], month |-> date[2], year |-> date[3],
        _cover_image |-> issue.image,
        format |-> Format(series),
        issue_count |-> IssueCount(series),
        title |-> Title(issue),
        maturity_rating |-> MaturityRating(issue),
        credits |-> Credits(Get(issue, "credits", <<>>)),
        volume |-> Volume(series)]

-----------------------------------------------------------------------------
(* The upstream issues handed to the mapper *)

\* MetSeriesType of the series of the issue; id 0 stands for a series without type
NoType == [id |-> 0, name |-> ""]
SeriesTypes ==
    { [id |-> 1, name |-> "Ongoing Series"],
      [id |-> 2, name |-> "Cancelled Series"],
      [id |-> 10, name |-> "Trade Paperback"],
      [id |-> 11, name |-> "Limited Series"] }

\* the first n of the roles a creator can have, as MetRole records
RoleNames == <<"Writer", "Artist", "Cover", "Inker">>
RoleList(n) == [i \in 1..n |-> [id |-> i, name |-> RoleNames[i]]]

\* MetCredit lists: one creator with 0..MaxRoles roles, alone or followed by a
\* creator without roles
CreditLists ==
    { <<>> }
    \cup { <<[id |-> 1, creator |-> "Tom King", role |-> RoleList(n)]>> : n \in 0..MaxRoles }
    \cup { <<[id |-> 1, creator |-> "Tom King", role |-> RoleList(n)],
             [id |-> 2, creator |-> "David Finch", role |-> <<>>]>> : n \in 0..MaxRoles }

Absent == [present |-> FALSE, value |-> <<>>]

\* an issue as the upstream knows it; "absent" and Absent mark a field that the
\* detail record does not carry, issue_count -1 a series without that field
Entities ==
    [id : {11}, number : {"1"}, image : {"11.jpg"},
     cover_date : {"absent", "", "2016-06-15"},
     series_type : SeriesTypes \cup {NoType},
     issue_count : {-1, 0, 12},
     title : {"absent", "", "Year One"},
     rating : {"absent", "Unknown", "Teen"},
     name : {Absent} \cup [present : {TRUE}, value : {<<>>, <<"Part 1", "Part 2">>}],
     credits : {Absent} \cup [present : {TRUE}, value : CreditLists]]

\* one field of a record, or no field
Field(key, present, value) == IF present THEN key :> value ELSE <<>>

\* MetIssueList: the record of the issue in a page of the issue/ list endpoint
ListRecord(e) ==
    [id |-> e.id, number |-> e.number, issue |-> "Batman (2016) #1",
     series |-> [name |-> "Batman", volume |-> 3, year_began |-> 2016],
     cover_date |-> IF e.cover_date = "absent" THEN "" ELSE e.cover_date,
     image |-> e.image]

\* MetIssue: the record of the issue as the issue/<id>/ endpoint returns it
DetailRecord(e) ==
    [id |-> e.id, number |-> e.number, image |-> e.image,
     series |-> [id |-> 1, name |-> "Batman", volume |-> 3, year_began |-> 2016]
                @@ Field("series_type", e.series_type # NoType, e.series_type)
                @@ Field("issue_count", e.issue_count # -1, e.issue_count)]
    @@ Field("cover_date", e.cover_date # "absent", e.cover_date)
    @@ Field("title", e.title # "absent", e.title)
    @@ Field("rating", e.rating # "absent", [id |-> 1, name |-> e.rating])
    @@ Field("name", e.name.present, e.name.value)
    @@ Field("credits", e.credits.present, e.credits.value)

NoEntity == CHOOSE e \in Entities : TRUE
NoMd == [mapped |-> FALSE]

-----------------------------------------------------------------------------
(* _get_url_content: one pass through the body of "for tries in range(3)" *)

\* the detail field of a decoded body: empty, or the message of the upstream
Details == {NoDetail, DetailBody.detail}

Statuses == {200, 500, 401, 403, 404}

\* what requests.get can come back with: an exception, or a response with a
\* status, a content type and a body; json tells whether the body decodes, and
\* detail is the detail field of the body when it does
Responses ==
    [exc : {"Timeout", "RequestException"}, status : {0}, ctype : {""}, json : {FALSE},
     detail : {NoDetail}]
    \cup [exc : {"none"}, status : {200}, ctype : {"text/html"}, json : {FALSE},
          detail : {NoDetail}]
    \cup [exc : {"none"}, status : Statuses, ctype : {"application/json"}, json : {FALSE},
          detail : {NoDetail}]
    \cup [exc : {"none"}, status : Statuses, ctype : {"application/json"}, json : {TRUE},
          detail : Details]

\* a response whose body has no count: it does not decode, or is a single record
NoCount == -1

\* no response yet
NoResp == [exc |-> "none", status |-> 0, ctype |-> "", json |-> FALSE, detail |-> NoDetail,
           count |-> NoCount]

\* variant: the test for 401 is missing
LoopControlWithout401(st) ==
    IF st = 403 THEN "raise"
    ELSE "break"

\* what the if-chain after the 200 test does with a status
LoopControl(st) ==
    IF st = 403 THEN "raise"
    ELSE IF st = 401 THEN "raise"
    ELSE "break"

\* variant: the sleep comes with every status that is not 200
SleptUnless200(st) == IF st # 200 THEN 1 ELSE 0

\* time.sleep(1) of the pass
Slept(st) == IF st = 500 THEN 1 ELSE 0

\* variant: the body is decoded and returned whatever the status of the response
LoopPassAnyStatus(r) ==
    IF r.exc = "Timeout" THEN [kind |-> "raise", codes |-> {4}, slept |-> 0]
    ELSE IF r.exc = "RequestException" THEN [kind |-> "raise", codes |-> {0}, slept |-> 0]
    ELSE IF r.ctype = "text/html" THEN [kind |-> "raise", codes |-> {0}, slept |-> 0]
    ELSE IF r.json THEN [kind |-> "return", codes |-> {}, slept |-> 0]
    ELSE [kind |-> "raise", codes |-> {0, 2}, slept |-> 0]

\* one pass of the loop of _get_url_content on the outcome of its GET
LoopPass(r) ==
    IF r.exc = "Timeout" THEN [kind |-> "raise", codes |-> {4}, slept |-> 0]
    ELSE IF r.exc = "RequestException" THEN [kind |-> "raise", codes |-> {0}, slept |-> 0]
    ELSE IF r.status = 200
         THEN IF r.ctype = "text/html" THEN [kind |-> "raise", codes |-> {0}, slept |-> 0]
              ELSE IF r.json THEN [kind |-> "return", codes |-> {}, slept |-> 0]
              ELSE [kind |-> "raise", codes |-> {0, 2}, slept |-> 0]
    ELSE [kind |-> LoopControl(r.status),
          codes |-> IF LoopControl(r.status) = "raise" THEN {1} ELSE {5},
          slept |-> Slept(r.status)]

\* variant: the error does not carry the message of the body
UpstreamErrorWithoutMessage(r) == [code |-> 0, msg |-> ""]

\* TalkerNetworkError(self.name, 0, f"{met_response['detail']}")
UpstreamError(r) == [code |-> 0, msg |-> r.detail]

\* _get_metron_content hands the body to its caller: _get_url_content returned
\* one, and it has no detail
Answered(r) == LoopPass(r).kind = "return" /\ r.detail = NoDetail

\* the response is taken note of, with the count its body reports
Received(r, count) ==
    /\ status' = r.status
    /\ resp' = [exc |-> r.exc, status |-> r.status, ctype |-> r.ctype, json |-> r.json,
                detail |-> r.detail, count |-> count]

\* no invocation of the callback yet
NoProgress == [n |-> 0, current |-> 0, total |-> 0]

\* variant: the callback is invoked twice
InvokeTwice(callback, current, total) ==
    IF callback THEN [n |-> progress.n + 2, current |-> current, total |-> total]
    ELSE progress

\* "if callback is not None: callback(current, total)"
Invoke(callback, current, total) ==
    IF callback THEN [n |-> progress.n + 1, current |-> current, total |-> total]
    ELSE progress

-----------------------------------------------------------------------------
(* The limiter *)

Callers == 1..MaxCallers

\* the identities admissions are counted under
Identities == {"metron"}

\* admissions per tick of the window, the current tick last
EmptyWindow == [i \in 1..TicksPerWindow |-> 0]

RECURSIVE Sum(_)
Sum(w) == IF w = <<>> THEN 0 ELSE Head(w) + Sum(Tail(w))

\* one more admission in the current tick
Count(w) == [w EXCEPT ![TicksPerWindow] = @ + 1]

\* the window moves on by one tick
Shift(w) == Tail(w) \o <<0>>

\* a caller outside the request path
Idle == [at |-> "idle", tries |-> 0]

\* limiter.ratelimit("metron", delay=True): one identity for every caller
LimiterKey(c) == "metron"

\* variant: the caller does not wait for room in the window
HasRoomAlways(window) == TRUE

\* delay=True: the caller is admitted once the window holds fewer than the budget
HasRoom(window) == Sum(window) < RateLimit

-----------------------------------------------------------------------------
\* no call has been made yet
InitCall ==
    /\ op = "none"
    /\ args = NoArgs
    /\ pc = "idle"
    /\ params = [page |-> 0]
    /\ tries = 0
    /\ attempts = 0
    /\ sleeps = 0
    /\ status = 0
    /\ resp = NoResp
    /\ progress = NoProgress
    /\ met_response = NoBody
    /\ search_results = <<>>
    /\ current_result_count = 0
    /\ total_result_count = 0
    /\ requests = 0
    /\ result = <<>>
    /\ err = NoErr
    /\ calls = 0
    /\ searched = [t \in SearchTerms |-> "no"]
    /\ cacheAtCall = caches

\* the flags as __init__ sets them
DefaultSettings ==
    [use_series_start_as_volume |-> FALSE, display_variants |-> FALSE,
     use_ongoing_issue_count |-> FALSE, find_series_covers |-> FALSE]

\* parse_settings sets three of the flags; display_variants stays as constructed
Settings ==
    [use_series_start_as_volume : BOOLEAN, display_variants : {FALSE},
     use_ongoing_issue_count : BOOLEAN, find_series_covers : BOOLEAN]

\* nothing has been mapped yet
InitMap ==
    /\ entity = NoEntity
    /\ md_list = NoMd
    /\ md_detail = NoMd

\* the limiter of the module: no admission yet, no caller in the request path
InitLimiter ==
    /\ bucket = [k \in Identities |-> EmptyWindow]
    /\ admitted = EmptyWindow
    /\ callerPc = [c \in Callers |-> Idle]
    /\ sent = [limited |-> 0, direct |-> 0]
    /\ acquired = 0

\* a talker constructed on an empty cache folder
Init ==
    /\ searchCache = [n \in SearchTerms |-> <<>>]
    /\ seriesCache = [i \in SeriesIds |-> <<>>]
    /\ issueCache = [i \in IssueIds |-> <<>>]
    /\ InitCall
    /\ settings = DefaultSettings
    /\ InitMap
    /\ InitLimiter

CanCall == pc \in {"idle", "done", "raised"} /\ calls < MaxCalls

\* variant: the refresh flag is read the wrong way round
UseCacheOnRefresh(refresh_cache, literal) == refresh_cache /\ ~literal

\* variant: a literal search reads the cache as well
UseCacheForLiteral(refresh_cache, literal) == ~refresh_cache

\* "if not refresh_cache and not literal": the search cache is consulted
UseCache(refresh_cache, literal) == ~refresh_cache /\ ~literal

\* state of a call that has just been entered
EnterCall(o, a) ==
    /\ op' = o
    /\ args' = a
    /\ calls' = calls + 1
    /\ cacheAtCall' = caches
    /\ err' = NoErr
    /\ search_results' = <<>>
    /\ current_result_count' = 0
    /\ total_result_count' = 0
    /\ met_response' = NoBody
    /\ tries' = 0
    /\ attempts' = 0
    /\ sleeps' = 0
    /\ status' = 0
    /\ resp' = NoResp
    /\ progress' = NoProgress

\* search_for_series up to its first request, or to its return from the cache
search_for_series(series_name, callback, refresh_cache, literal) ==
    LET a == [NoArgs EXCEPT !.name = series_name, !.callback = callback,
                            !.literal = literal, !.refresh_cache = refresh_cache]
        search_series_name == SearchSeriesName(series_name, literal)
        cached_search_results == get_search_results(search_series_name)
    IN /\ CanCall
       /\ EnterCall("search", a)
       /\ UNCHANGED <<settings, mapvars, limvars>>
       /\ UNCHANGED caches
       /\ UNCHANGED searched
       /\ IF UseCache(refresh_cache, literal) /\ Len(cached_search_results) > 0
          THEN /\ pc' = "done"
               /\ result' = _format_search_results(cached_search_results)
               /\ requests' = 0
               /\ params' = [page |-> 0]
          ELSE /\ pc' = "request"
               /\ result' = <<>>
               /\ requests' = 1
               /\ params' = [page |-> 1]

\* variant: the error is raised, but the pages accumulated so far are handed out
RaiseWithPartialResults(e) ==
    /\ pc' = "raised"
    /\ err' = e
    /\ result' = search_results
    /\ UNCHANGED caches
    /\ met_response' = NoBody
    /\ search_results' = <<>>
    /\ current_result_count' = 0
    /\ total_result_count' = 0

\* the exception leaves the call: its locals are gone, nothing is returned
Raise(e) ==
    /\ pc' = "raised"
    /\ err' = e
    /\ result' = <<>>
    /\ UNCHANGED caches
    /\ met_response' = NoBody
    /\ search_results' = <<>>
    /\ current_result_count' = 0
    /\ total_result_count' = 0

\* variant: the page is put in front of the results there are
ExtendInFront(results, page) == page \o results

\* search_results.extend(met_response["results"])
Extend(results, page) == results \o page

\* the locals of the paging loop after a page has been taken in
Accumulate(body, acc, count, total) ==
    /\ met_response' = body
    /\ search_results' = acc
    /\ current_result_count' = count
    /\ total_result_count' = total

\* a GET of the outstanding request that does not hand a usable body to the caller:
\* an exception, a status other than 200, an HTML page, an undecodable body, or
\* (in _get_metron_content) a body with a detail message
RequestFails ==
    /\ pc = "request"
    /\ \E r \in Responses :
         LET o == LoopPass(r) IN
         /\ attempts' = attempts + 1
         /\ sleeps' = sleeps + o.slept
         /\ Received(r, NoCount)
         /\ \/ /\ o.kind = "return"
               /\ r.detail # NoDetail
               /\ Raise(UpstreamError(r))
               /\ tries' = tries
            \/ /\ o.kind = "raise"
               /\ \E c \in o.codes : Raise([code |-> c, msg |-> ""])
               /\ tries' = tries
            \/ /\ o.kind = "break" \/ (o.kind = "continue" /\ tries + 1 = MaxTries)
               /\ Raise([code |-> 5, msg |-> ""])
               /\ tries' = tries
            \/ /\ o.kind = "continue" /\ tries + 1 < MaxTries
               /\ tries' = tries + 1
               /\ UNCHANGED <<pc, err, result, caches, met_response, search_results,
                              current_result_count, total_result_count>>
    /\ UNCHANGED <<op, args, params, requests, calls, searched, cacheAtCall, progress>>
    /\ UNCHANGED <<settings, mapvars, limvars>>

\* search_for_series from the arrival of a page to the next request or the return
SeriesPageArrives ==
    /\ pc = "request"
    /\ op = "search"
    /\ \E r \in Responses, body \in SeriesBodies :
         LET search_series_name == SearchSeriesName(args.name, args.literal)
             first == requests = 1
             count == IF first THEN ListLen(body.results)
                      ELSE current_result_count + ListLen(body.results)
             total == IF first THEN Min(body.count, max_results) ELSE total_result_count
             acc == Extend(search_results, body.results)
             more == count < body.count
             stop_searching == /\ ~args.literal
                               /\ StopSearching(search_series_name, body.results,
                                                args.series_match_thresh)
         IN /\ Answered(r)
            /\ Len(acc) <= MaxChunks
            /\ first \/ body.count = met_response.count
            /\ ListLen(acc) <= body.count
            /\ Received(r, body.count)
            /\ progress' = Invoke(args.callback, count, total)
            /\ IF more /\ ~stop_searching
               THEN /\ requests < MaxRequests
                    /\ Accumulate(body, acc, count, total)
                    /\ requests' = requests + 1
                    /\ params' = [page |-> params.page + 1]
                    /\ tries' = 0
                    /\ attempts' = 0
                    /\ sleeps' = 0
                    /\ UNCHANGED <<pc, err, result, caches, searched>>
               ELSE /\ attempts' = attempts + 1
                    /\ UNCHANGED <<requests, params, tries, sleeps>>
                    /\ \/ /\ pc' = "done"
                          /\ Accumulate(body, acc, count, total)
                          /\ searched' = [searched EXCEPT ![search_series_name] =
                                             IF acc = <<>> THEN "empty"
                                             ELSE IF args.literal THEN "literal" ELSE "nonliteral"]
                          /\ result' = _format_search_results(acc)
                          /\ searchCache' = AddSearchRows(searchCache, search_series_name, acc)
                          /\ seriesCache' = UpsertSeries(seriesCache, acc, FALSE)
                          /\ UNCHANGED <<issueCache, err>>
                       \/ /\ Raise(CacheWriteFailed)
                          /\ UNCHANGED searched
    /\ UNCHANGED <<op, args, calls, cacheAtCall>>
    /\ UNCHANGED <<settings, mapvars, limvars>>

\* variant: the cache counts as usable when it holds at least issue_count issues
CacheUsableAtLeast(cached_series_result, cached_series_issues_result) ==
    /\ cached_series_result # <<>>
    /\ Len(cached_series_issues_result) >= cached_series_result[1].data.issue_count

\* the cache is usable when the series is cached and as many issues are cached as it counts
CacheUsable(cached_series_result, cached_series_issues_result) ==
    /\ cached_series_result # <<>>
    /\ Len(cached_series_issues_result) = cached_series_result[1].data.issue_count

\* fetch_issues_in_series up to its first request, or to its return from the cache
fetch_issues_in_series(series_id) ==
    LET cached_series_issues_result == get_series_issues_info(series_id)
        cached_series_result == get_series_info(series_id)
    IN /\ CanCall
       /\ EnterCall("issues", [NoArgs EXCEPT !.series_id = series_id])
       /\ UNCHANGED <<settings, mapvars, limvars>>
       /\ UNCHANGED <<caches, searched>>
       /\ IF CacheUsable(cached_series_result, cached_series_issues_result)
          THEN /\ pc' = "done"
               /\ result' = [i \in 1..Len(cached_series_issues_result) |->
                                _map_comic_issue_to_metadata(cached_series_issues_result[i].data)]
               /\ requests' = 0
               /\ params' = [page |-> 0]
          ELSE /\ pc' = "request"
               /\ result' = <<>>
               /\ requests' = 1
               /\ params' = [page |-> 1]

\* fetch_issues_in_series from the arrival of a page to the next request or the return
IssuesPageArrives ==
    /\ pc = "request"
    /\ op = "issues"
    /\ \E r \in Responses, body \in IssueBodies :
         LET first == requests = 1
             count == IF first THEN Len(body.results)
                      ELSE current_result_count + Len(body.results)
             total == IF first THEN body.count ELSE total_result_count
             acc == search_results \o body.results
         IN /\ Answered(r)
            /\ Len(acc) <= MaxChunks
            /\ first \/ body.count = met_response.count
            /\ Len(acc) <= body.count
            /\ Received(r, body.count)
            /\ IF count < total
               THEN /\ requests < MaxRequests
                    /\ Accumulate(body, acc, count, total)
                    /\ requests' = requests + 1
                    /\ params' = [page |-> params.page + 1]
                    /\ tries' = 0
                    /\ attempts' = 0
                    /\ sleeps' = 0
                    /\ UNCHANGED <<pc, err, result, caches>>
               ELSE /\ attempts' = attempts + 1
                    /\ UNCHANGED <<requests, params, tries, sleeps>>
                    /\ \/ /\ pc' = "done"
                          /\ Accumulate(body, acc, count, total)
                          /\ issueCache' = add_issues_info(issueCache, args.series_id, acc, FALSE)
                          /\ result' = [i \in 1..Len(acc) |->
                                           _map_comic_issue_to_metadata(acc[i])]
                          /\ UNCHANGED <<searchCache, seriesCache, err>>
                       \/ Raise(CacheWriteFailed)
    /\ UNCHANGED <<op, args, calls, searched, cacheAtCall, progress>>
    /\ UNCHANGED <<settings, mapvars, limvars>>

\* the cache persists between runs: series 1 may be cached with any issue count,
\* and any of the issues may be cached for either series
CachedSeriesRows ==
    { <<[data |-> [id |-> 1, series |-> "Batman (2016)", issue_count |-> k], complete |-> c]>> :
        k \in 0..2, c \in BOOLEAN }

CachedIssueRows(i) ==
    { <<[series_id |-> s, data |-> e, complete |-> FALSE]>> :
        s \in SeriesIds, e \in {x \in IssueEntries : x.id = i} }

\* a talker constructed on a cache folder that earlier runs have filled
InitIssues ==
    /\ searchCache = [n \in SearchTerms |-> <<>>]
    /\ seriesCache \in [SeriesIds -> {<<>>} \cup CachedSeriesRows]
    /\ seriesCache[2] = <<>>
    /\ issueCache \in [IssueIds -> {<<>>} \cup CachedIssueRows(11) \cup CachedIssueRows(12)]
    /\ \A i \in IssueIds : issueCache[i] # <<>> => issueCache[i][1].data.id = i
    /\ InitCall
    /\ settings = DefaultSettings
    /\ InitMap
    /\ InitLimiter

NextIssues ==
    \/ \E s \in SeriesIds : fetch_issues_in_series(s)
    \/ RequestFails
    \/ IssuesPageArrives

SpecIssues == InitIssues /\ [][NextIssues]_vars

NextSearch ==
    \/ \E n \in Names, refresh_cache \in BOOLEAN, literal \in BOOLEAN :
          search_for_series(n, FALSE, refresh_cache, literal)
    \/ RequestFails
    \/ SeriesPageArrives

SpecSearch == Init /\ [][NextSearch]_vars

\* the searches of a caller that passes a progress callback
NextProgress ==
    \/ \E n \in Names, refresh_cache \in BOOLEAN, literal \in BOOLEAN :
          search_for_series(n, TRUE, refresh_cache, literal)
    \/ RequestFails
    \/ SeriesPageArrives

SpecProgress == Init /\ [][NextProgress]_vars

-----------------------------------------------------------------------------
(* Single records: fetch_series and the issue by its id *)

\* MetSeries: the record of a series as the series/<id>/ endpoint returns it
SeriesDetail(series_id) ==
    [id |-> series_id,
     name |-> IF series_id = 1 THEN "Batman" ELSE "Robin",
     sort_name |-> IF series_id = 1 THEN "Batman" ELSE "Robin",
     issue_count |-> IF series_id = 1 THEN 2 ELSE 1,
     year_began |-> IF series_id = 1 THEN 2016 ELSE 1993,
     desc |-> "", publisher |-> [id |-> 1, name |-> "DC Comics"],
     associated |-> <<>>]

\* MetIssue: the record of an issue as the issue/<id>/ endpoint returns it
IssueDetail(issue_id) ==
    [id |-> issue_id,
     number |-> IF issue_id = 11 THEN "1" ELSE "2",
     series |-> [id |-> 1, name |-> "Batman", volume |-> 3, year_began |-> 2016,
                 series_type |-> [id |-> 1, name |-> "Ongoing Series"]],
     cover_date |-> "2016-06-15",
     image |-> IF issue_id = 11 THEN "11.jpg" ELSE "12.jpg",
     title |-> "", name |-> <<"Part 1">>, credits |-> <<>>]

\* the series image kept under the id -999 of the associated series, or ""
SeriesImage(series) ==
    IF \E i \in 1..Len(series.associated) : series.associated[i].id = -999
    THEN LET i == CHOOSE j \in 1..Len(series.associated) :
                     /\ series.associated[j].id = -999
                     /\ \A k \in j+1..Len(series.associated) : series.associated[k].id # -999
         IN series.associated[i].series
    ELSE ""

HasSeriesImage(series) ==
    \E i \in 1..Len(series.associated) : series.associated[i].id = -999

_format_series(search_result) ==
    [id |-> ToStr(search_result.id), name |-> search_result.name,
     aliases |-> {search_result.sort_name},
     count_of_issues |-> search_result.issue_count,
     image_url |-> SeriesImage(search_result),
     publisher |-> search_result.publisher.name,
     start_year |-> search_result.year_began]

\* cvc.add_series_info: the row of the series is replaced
add_series_info(cache, series, complete) ==
    [cache EXCEPT ![series.id] = <<[data |-> series, complete |-> complete]>>]

\* variant: with covers asked for, the cached record never answers the call
SeriesCacheHitUnlessCovers(cached_series_result) ==
    /\ cached_series_result # <<>>
    /\ cached_series_result[1].complete
    /\ ~settings.find_series_covers

\* the cached record answers the call: it is complete, and has a cover when
\* covers are asked for
SeriesCacheHit(cached_series_result) ==
    /\ cached_series_result # <<>>
    /\ cached_series_result[1].complete
    /\ (~settings.find_series_covers \/ HasSeriesImage(cached_series_result[1].data))

\* fetch_series up to its request of the series, or to its return from the cache
fetch_series(series_id) ==
    LET cached_series_result == get_series_info(series_id)
    IN /\ CanCall
       /\ EnterCall("series", [NoArgs EXCEPT !.series_id = series_id])
       /\ UNCHANGED <<caches, searched, settings, mapvars, limvars>>
       /\ IF SeriesCacheHit(cached_series_result)
          THEN /\ pc' = "done"
               /\ result' = <<_format_series(cached_series_result[1].data)>>
               /\ requests' = 0
               /\ params' = [page |-> 0]
          ELSE /\ pc' = "request"
               /\ result' = <<>>
               /\ requests' = 1
               /\ params' = [page |-> 0]

\* the end of _fetch_series: the record is cached as complete and returned
StoreSeries(series) ==
    \/ /\ pc' = "done"
       /\ met_response' = series
       /\ seriesCache' = add_series_info(seriesCache, series, TRUE)
       /\ result' = <<_format_series(series)>>
       /\ UNCHANGED <<searchCache, issueCache, err, search_results,
                      current_result_count, total_result_count>>
    \/ Raise(CacheWriteFailed)

\* _fetch_series from the arrival of the series to the request of its cover, or
\* to the return
SeriesDetailArrives ==
    /\ pc = "request"
    /\ op = "series"
    /\ requests = 1
    /\ \E r \in Responses :
         /\ Answered(r)
         /\ Received(r, NoCount)
         /\ IF settings.find_series_covers
            THEN /\ requests' = 2
                 /\ params' = [page |-> 0, series_id |-> args.series_id]
                 /\ met_response' = SeriesDetail(args.series_id)
                 /\ tries' = 0
                 /\ attempts' = 0
                 /\ sleeps' = 0
                 /\ UNCHANGED <<pc, err, result, caches, search_results,
                                current_result_count, total_result_count>>
            ELSE /\ attempts' = attempts + 1
                 /\ UNCHANGED <<requests, params, tries, sleeps>>
                 /\ StoreSeries(SeriesDetail(args.series_id))
    /\ UNCHANGED <<op, args, calls, searched, cacheAtCall, progress>>
    /\ UNCHANGED <<settings, mapvars, limvars>>

\* variant: the entry of the cover attempt is added only when an image was found
WithSeriesImageIfAny(series, img) ==
    IF img = "" THEN series
    ELSE [series EXCEPT !.associated = @ \o <<[id |-> -999, series |-> img]>>]

\* met_response["associated"].append({"id": -999, "series": series_image}): the
\* series record with the image of its cover attempt
WithSeriesImage(series, img) ==
    [series EXCEPT !.associated = @ \o <<[id |-> -999, series |-> img]>>]

\* _fetch_series_cover: the image of the first issue of the list, "" without one
SeriesCoverArrives ==
    /\ pc = "request"
    /\ op = "series"
    /\ requests = 2
    /\ \E r \in Responses, body \in IssueBodies :
         LET img == IF Len(body.results) > 0 THEN body.results[1].image ELSE ""
             series == WithSeriesImage(met_response, img)
         IN /\ Answered(r)
            /\ Len(body.results) <= body.count
            /\ Received(r, body.count)
            /\ attempts' = attempts + 1
            /\ UNCHANGED <<requests, params, tries, sleeps>>
            /\ StoreSeries(series)
    /\ UNCHANGED <<op, args, calls, searched, cacheAtCall, progress>>
    /\ UNCHANGED <<settings, mapvars, limvars>>

get_issue_info(issue_id) == issueCache[issue_id]

\* "Inject issue count": the issue_count of the cached series of the issue, if any
InjectIssueCount(issue, cached_series_result) ==
    IF cached_series_result # <<>> /\ "issue_count" \in DOMAIN cached_series_result[1].data
    THEN [issue EXCEPT !.series = ("issue_count" :> cached_series_result[1].data.issue_count) @@ @]
    ELSE issue

\* the cached record answers the call: it is there and complete
IssueCacheHit(cached_issues_result) ==
    cached_issues_result # <<>> /\ cached_issues_result[1].complete

\* variant: the record answered from the cache is written back as it is returned,
\* with the issue count injected
fetch_comic_data_storing(issue_id) ==
    LET cached_issues_result == get_issue_info(issue_id)
    IN /\ CanCall
       /\ EnterCall("issue", [NoArgs EXCEPT !.issue_id = issue_id])
       /\ UNCHANGED <<searchCache, seriesCache, searched, settings, mapvars, limvars>>
       /\ IF IssueCacheHit(cached_issues_result)
          THEN LET issue == InjectIssueCount(cached_issues_result[1].data,
                                get_series_info(cached_issues_result[1].series_id))
               IN /\ pc' = "done"
                  /\ result' = <<_map_comic_issue_to_metadata(issue)>>
                  /\ issueCache' = add_issues_info(issueCache, cached_issues_result[1].series_id,
                                                   <<issue>>, TRUE)
                  /\ requests' = 0
                  /\ params' = [page |-> 0]
          ELSE /\ pc' = "request"
               /\ result' = <<>>
               /\ requests' = 1
               /\ params' = [page |-> 0]
               /\ UNCHANGED issueCache

\* _fetch_issue_data_by_issue_id up to its request, or to its return from the cache
fetch_comic_data(issue_id) ==
    LET cached_issues_result == get_issue_info(issue_id)
    IN /\ CanCall
       /\ EnterCall("issue", [NoArgs EXCEPT !.issue_id = issue_id])
       /\ UNCHANGED <<caches, searched, settings, mapvars, limvars>>
       /\ IF IssueCacheHit(cached_issues_result)
          THEN /\ pc' = "done"
               /\ result' = <<_map_comic_issue_to_metadata(
                                 InjectIssueCount(cached_issues_result[1].data,
                                     get_series_info(cached_issues_result[1].series_id)))>>
               /\ requests' = 0
               /\ params' = [page |-> 0]
          ELSE /\ pc' = "request"
               /\ result' = <<>>
               /\ requests' = 1
               /\ params' = [page |-> 0]

\* _fetch_issue_data_by_issue_id from the arrival of the issue: the series of the
\* cached row is looked up (there is no row to look at when the issue was not
\* cached), the record is cached as complete and returned mapped
IssueDetailArrives ==
    /\ pc = "request"
    /\ op = "issue"
    /\ \E r \in Responses :
         LET cached_issues_result == get_issue_info(args.issue_id)
             body == IssueDetail(args.issue_id)
         IN /\ Answered(r)
            /\ Received(r, NoCount)
            /\ attempts' = attempts + 1
            /\ UNCHANGED <<requests, params, tries, sleeps>>
            /\ IF cached_issues_result = <<>>
               THEN Raise(TypeError)
               ELSE LET issue == InjectIssueCount(body,
                                     get_series_info(cached_issues_result[1].series_id))
                    IN \/ /\ pc' = "done"
                          /\ met_response' = issue
                          /\ issueCache' = add_issues_info(issueCache, issue.series.id,
                                                           <<issue>>, TRUE)
                          /\ result' = <<_map_comic_issue_to_metadata(issue)>>
                          /\ UNCHANGED <<searchCache, seriesCache, err, search_results,
                                         current_result_count, total_result_count>>
                       \/ Raise(CacheWriteFailed)
    /\ UNCHANGED <<op, args, calls, searched, cacheAtCall, progress>>
    /\ UNCHANGED <<settings, mapvars, limvars>>

-----------------------------------------------------------------------------
(* fetch_issues_by_series_issue_num_and_year *)

\* "Inject series_id"
InjectSeriesId(issue, series_id) ==
    [issue EXCEPT !.series = ("id" :> series_id) @@ @]

\* the image URL is removed before the record is mapped
NoImage(issue) == [issue EXCEPT !.image = ""]

\* the series of the list, in order, as far as the cache has an issue with the
\* number: issues_result so far, and the series still to do, the first of which
\* needs a request
RECURSIVE LookupCached(_, _, _, _)
LookupCached(cache, ids, number, issues_result) ==
    IF ids = <<>> THEN [issues_result |-> issues_result, pending |-> <<>>]
    ELSE LET cached_series_issues == RowsOf(cache, IssueIds, Head(ids))
             hits == SelectSeq(cached_series_issues, LAMBDA row : row.data.number = number)
         IN IF hits # <<>>
            THEN LookupCached(cache, Tail(ids), number,
                     issues_result \o <<_map_comic_issue_to_metadata(
                                          NoImage(InjectSeriesId(hits[1].data, Head(ids))))>>)
            ELSE [issues_result |-> issues_result, pending |-> ids]

\* params of the request for one series
LookupParams(series_id, number, year) ==
    [page |-> 0, series_id |-> series_id, number |-> number]
    @@ Field("cover_year", year # 0, year)

\* the series of the list after the given one
RECURSIVE After(_, _)
After(ids, series_id) ==
    IF ids = <<>> THEN <<>>
    ELSE IF Head(ids) = series_id THEN Tail(ids) ELSE After(Tail(ids), series_id)

\* the call up to its first request, or to its return from the cache
fetch_issues_by_series_issue_num_and_year(series_id_list, issue_number, year) ==
    LET go == LookupCached(issueCache, series_id_list, issue_number, <<>>)
    IN /\ CanCall
       /\ EnterCall("lookup", [NoArgs EXCEPT !.series_id_list = series_id_list,
                                             !.issue_number = issue_number, !.year = year])
       /\ UNCHANGED <<caches, searched, settings, mapvars, limvars>>
       /\ result' = go.issues_result
       /\ IF go.pending = <<>>
          THEN /\ pc' = "done"
               /\ requests' = 0
               /\ params' = [page |-> 0]
          ELSE /\ pc' = "request"
               /\ requests' = 1
               /\ params' = LookupParams(Head(go.pending), issue_number, year)

\* the rest of the list after the answer for one series
LookupGoesOn(go) ==
    /\ result' = go.issues_result
    /\ IF go.pending = <<>>
       THEN /\ pc' = "done"
            /\ attempts' = attempts + 1
            /\ UNCHANGED <<requests, params, tries, sleeps>>
       ELSE /\ requests < MaxRequests
            /\ requests' = requests + 1
            /\ params' = LookupParams(Head(go.pending), args.issue_number, args.year)
            /\ tries' = 0
            /\ attempts' = 0
            /\ sleeps' = 0
            /\ UNCHANGED pc

\* from the arrival of the answer for one series to the next request or the return
LookupArrives ==
    /\ pc = "request"
    /\ op = "lookup"
    /\ \E r \in Responses, body \in IssueBodies :
         LET series_id == params.series_id
             rest == After(args.series_id_list, series_id)
         IN /\ Answered(r)
            /\ Len(body.results) <= body.count
            /\ Received(r, body.count)
            /\ IF body.count > 0
               THEN IF body.results = <<>>
                    THEN /\ Raise(IndexError)
                         /\ attempts' = attempts + 1
                         /\ UNCHANGED <<requests, params, tries, sleeps>>
                    ELSE LET found == InjectSeriesId(body.results[1], series_id)
                             written == add_issues_info(issueCache, series_id, <<found>>, FALSE)
                         IN \/ /\ issueCache' = written
                               /\ met_response' = body
                               /\ LookupGoesOn(LookupCached(written, rest, args.issue_number,
                                      result \o <<_map_comic_issue_to_metadata(NoImage(found))>>))
                               /\ UNCHANGED <<searchCache, seriesCache, err, search_results,
                                              current_result_count, total_result_count>>
                            \/ /\ Raise(CacheWriteFailed)
                               /\ attempts' = attempts + 1
                               /\ UNCHANGED <<requests, params, tries, sleeps>>
               ELSE /\ met_response' = body
                    /\ LookupGoesOn(LookupCached(issueCache, rest, args.issue_number, result))
                    /\ UNCHANGED <<caches, err, search_results,
                                   current_result_count, total_result_count>>
    /\ UNCHANGED <<op, args, calls, searched, cacheAtCall, progress>>
    /\ UNCHANGED <<settings, mapvars, limvars>>

-----------------------------------------------------------------------------
(* All the public operations on one cache *)

SeriesIdLists == { <<1>>, <<1, 2>> }

\* a talker constructed on an empty cache folder, covers asked for or not
InitFetch ==
    /\ searchCache = [n \in SearchTerms |-> <<>>]
    /\ seriesCache = [i \in SeriesIds |-> <<>>]
    /\ issueCache = [i \in IssueIds |-> <<>>]
    /\ InitCall
    /\ settings \in Settings
    /\ ~settings.use_series_start_as_volume
    /\ ~settings.use_ongoing_issue_count
    /\ InitMap
    /\ InitLimiter

NextFetch ==
    \/ search_for_series(<<"batman">>, FALSE, TRUE, FALSE)
    \/ \E s \in SeriesIds : fetch_series(s)
    \/ \E s \in SeriesIds : fetch_issues_in_series(s)
    \/ \E i \in IssueIds : fetch_comic_data(i)
    \/ \E l \in SeriesIdLists : fetch_issues_by_series_issue_num_and_year(l, "1", 2016)
    \/ RequestFails
    \/ SeriesPageArrives
    \/ IssuesPageArrives
    \/ SeriesDetailArrives
    \/ SeriesCoverArrives
    \/ IssueDetailArrives
    \/ LookupArrives

SpecFetch == InitFetch /\ [][NextFetch]_vars

-----------------------------------------------------------------------------
(* The public operations on a cache that earlier runs have filled *)

\* rows of the series table for series 1: none, the row a search wrote, the row
\* a fetch without covers wrote, the row a fetch with covers wrote
WarmSeriesRows ==
    { <<>>,
      <<[data |-> [id |-> 1, series |-> "Batman (2016)", issue_count |-> 2],
         complete |-> FALSE]>>,
      <<[data |-> SeriesDetail(1), complete |-> TRUE]>> }
    \cup { <<[data |-> WithSeriesImage(SeriesDetail(1), img), complete |-> TRUE]>> :
             img \in {"", "11.jpg"} }

\* rows of the issue table for an issue of series 1: none, the row the issue
\* list wrote, the row the fetch of the issue wrote
WarmIssueRows(i) ==
    { <<>>, <<[series_id |-> 1, data |-> IssueDetail(i), complete |-> TRUE]>> }
    \cup { <<[series_id |-> 1, data |-> e, complete |-> FALSE]>> :
             e \in {x \in IssueEntries : x.id = i} }

\* a talker constructed on such a cache folder, covers asked for or not
InitWarm ==
    /\ searchCache \in [SearchTerms -> {<<>>, <<MatchingSeries>>}]
    /\ \A t \in SearchTerms : searchCache[t] # <<>> => t = <<"batman">>
    /\ seriesCache \in [SeriesIds -> WarmSeriesRows]
    /\ seriesCache[2] = <<>>
    /\ issueCache \in [IssueIds -> WarmIssueRows(11) \cup WarmIssueRows(12)]
    /\ \A i \in IssueIds : issueCache[i] \in WarmIssueRows(i)
    /\ InitCall
    /\ settings \in Settings
    /\ ~settings.use_series_start_as_volume
    /\ ~settings.use_ongoing_issue_count
    /\ InitMap
    /\ InitLimiter

\* the cover years a caller looks for
LookupYears == {2016, 2017}

NextWarm ==
    \/ search_for_series(<<"batman">>, FALSE, FALSE, FALSE)
    \/ \E s \in SeriesIds : fetch_series(s)
    \/ \E s \in SeriesIds : fetch_issues_in_series(s)
    \/ \E i \in IssueIds : fetch_comic_data(i)
    \/ \E l \in SeriesIdLists, y \in LookupYears :
          fetch_issues_by_series_issue_num_and_year(l, "1", y)
    \/ RequestFails
    \/ SeriesDetailArrives
    \/ SeriesCoverArrives
    \/ IssueDetailArrives

SpecWarm == InitWarm /\ [][NextWarm]_vars

-----------------------------------------------------------------------------
(* The mapper applied to an issue in both its shapes *)

\* a talker with any setting of the mapper's flags, and any issue to map
InitMapper ==
    /\ searchCache = [n \in SearchTerms |-> <<>>]
    /\ seriesCache = [i \in SeriesIds |-> <<>>]
    /\ issueCache = [i \in IssueIds |-> <<>>]
    /\ InitCall
    /\ InitLimiter
    /\ settings \in Settings
    /\ ~settings.find_series_covers
    /\ entity \in Entities
    /\ md_list = NoMd
    /\ md_detail = NoMd

MapListRecord ==
    /\ md_list = NoMd
    /\ md_list' = _map_comic_issue_to_metadata(ListRecord(entity))
    /\ UNCHANGED <<caches, callvars, settings, entity, md_detail, limvars>>

MapDetailRecord ==
    /\ md_detail = NoMd
    /\ md_detail' = _map_comic_issue_to_metadata(DetailRecord(entity))
    /\ UNCHANGED <<caches, callvars, settings, entity, md_list, limvars>>

NextMapper ==
    \/ MapListRecord
    \/ MapDetailRecord

SpecMapper == InitMapper /\ [][NextMapper]_vars

-----------------------------------------------------------------------------
(* Concurrent callers of the request path, and check_status *)

\* _get_metron_content up to the call of _get_url_content: the caller waits in
\* limiter.ratelimit until the window of its identity has room, and is admitted
EnterRequestPath(c) ==
    /\ callerPc[c] = Idle
    /\ acquired < MaxAcquired
    /\ HasRoom(bucket[LimiterKey(c)])
    /\ bucket' = [bucket EXCEPT ![LimiterKey(c)] = Count(@)]
    /\ admitted' = Count(admitted)
    /\ acquired' = acquired + 1
    /\ callerPc' = [callerPc EXCEPT ![c] = [at |-> "get", tries |-> 0]]
    /\ UNCHANGED <<caches, callvars, settings, mapvars, sent>>

\* one pass of the loop of _get_url_content: a GET is sent; the answer ends the
\* call or lets the loop go round
SendRequest(c) ==
    /\ callerPc[c].at = "get"
    /\ \E r \in Responses :
         LET again == LoopPass(r).kind = "continue" /\ callerPc[c].tries + 1 < MaxTries
         IN callerPc' = [callerPc EXCEPT ![c] =
                            IF again THEN [at |-> "get", tries |-> @.tries + 1] ELSE Idle]
    /\ sent' = [sent EXCEPT !.limited = @ + 1]
    /\ UNCHANGED <<caches, callvars, settings, mapvars, bucket, admitted, acquired>>

\* check_status: requests.get of series/1/, called directly
check_status ==
    /\ sent.direct < MaxChecks
    /\ sent' = [sent EXCEPT !.direct = @ + 1]
    /\ UNCHANGED <<caches, callvars, settings, mapvars, bucket, admitted, callerPc, acquired>>

\* half a minute passes
Tick ==
    /\ bucket' = [k \in Identities |-> Shift(bucket[k])]
    /\ admitted' = Shift(admitted)
    /\ UNCHANGED <<caches, callvars, settings, mapvars, callerPc, sent, acquired>>

NextLimiter ==
    \/ \E c \in Callers : EnterRequestPath(c)
    \/ \E c \in Callers : SendRequest(c)
    \/ check_status
    \/ Tick

SpecLimiter == Init /\ [][NextLimiter]_vars

-----------------------------------------------------------------------------
(* Properties *)

\* the term of the search in flight
CallTerm == SearchSeriesName(args.name, args.literal)

\* some entry of the list is below the threshold of the search in flight
HasFailingEntry(results) ==
    \E i \in 1..Len(results) : Ratio(CallTerm, results[i].series) < args.series_match_thresh

\* C1: a non-literal search_for_series sends at most 5 page requests to the
\* series endpoint, whatever count the upstream reports and however many results
\* a page carries.
C1_AtMostFivePages ==
    (op = "search" /\ ~args.literal) => requests <= 5

\* C2: a request answered with HTTP 500 is issued again (after a sleep of one
\* second), up to 2 more times; the call ends with the exhausted-retries error
\* only after three 500 responses in a row.
C2_RetryOn500 ==
    /\ (status = 500 /\ attempts < 3) => (pc = "request" /\ sleeps = attempts)
    /\ (status = 500 /\ pc = "raised") => (attempts = 3 /\ err.code = 5)

\* C3: a 401 or 403 response ends _get_url_content with the authentication
\* error (code 1) at that attempt: the call is over, and no sleep is made for it.
C3_AuthFailsAtOnce ==
    [][(pc = "request" /\ status' \in {401, 403})
        => (pc' = "raised" /\ err'.code = 1 /\ sleeps' = sleeps
            /\ attempts' = attempts + 1 /\ requests' = requests)]_vars

C3_Witness ==
    pc = "raised" /\ status = 401 /\ err.code = 1 /\ attempts = 1 /\ sleeps = 0

\* the issues cached for a series when the call in flight started
CachedIssuesAtCall(series_id) == RowsOf(cacheAtCall[3], IssueIds, series_id)

SeriesAtCall(series_id) == cacheAtCall[2][series_id]

\* C4: with a series record cached for s, fetch_issues_in_series(s) sends a request
\* to the issue list endpoint if and only if the number of issues cached for s
\* differs from the issue_count of that series record.
C4_RefetchIffCountDiffers ==
    (op = "issues" /\ SeriesAtCall(args.series_id) # <<>>)
        => ((requests > 0) <=>
              (Len(CachedIssuesAtCall(args.series_id))
                 # SeriesAtCall(args.series_id)[1].data.issue_count))

C4_Witness ==
    /\ op = "issues" /\ pc = "done" /\ requests = 0
    /\ SeriesAtCall(args.series_id) # <<>>
    /\ SeriesAtCall(args.series_id)[1].data.issue_count = 2
    /\ Len(CachedIssuesAtCall(args.series_id)) = 2
    /\ Len(result) = 2

\* C5: in a literal search a further page is requested exactly while the number
\* of accumulated results is below min(upstream count, 500), and the search
\* returns once that capped total is reached.
C5_LiteralPagesToCappedTotal ==
    (op = "search" /\ args.literal)
        => /\ (pc = "request" /\ requests > 1)
                => current_result_count < Min(met_response.count, max_results)
           /\ pc = "done"
                => current_result_count >= Min(met_response.count, max_results)

\* page 2 of a non-literal search arrives with an entry below the threshold and
\* results still outstanding, page 1 having had no such entry; while page 2 is
\* awaited the accumulator holds the results of page 1
SecondPageFails ==
    /\ op = "search" /\ ~args.literal /\ pc = "request" /\ requests = 2
    /\ ~HasFailingEntry(search_results)
    /\ pc' # "raised"
    /\ HasFailingEntry(met_response'.results)
    /\ current_result_count' < met_response'.count

\* C6 as claimed: in that case the search has issued exactly 2 page requests
\* and returns the results of page 1 only.
C6_OnlyFirstPage ==
    [][SecondPageFails
        => (pc' = "done" /\ requests' = 2
            /\ result' = _format_search_results(search_results))]_vars

\* C6 as amended: in that case the search has issued exactly 2 page requests and
\* returns the results of page 1 followed by the results of page 2.
C6_BothPages ==
    [][SecondPageFails
        => (pc' = "done" /\ requests' = 2
            /\ result' = _format_search_results(search_results \o met_response'.results))]_vars

\* the results of page 1 once a call has returned after two pages
FirstOfTwoPages ==
    SubSeq(search_results, 1, Len(search_results) - Len(met_response.results))

C6_Witness ==
    /\ op = "search" /\ ~args.literal /\ pc = "done" /\ requests = 2
    /\ FirstOfTwoPages # <<>> /\ ~HasFailingEntry(FirstOfTwoPages)
    /\ HasFailingEntry(met_response.results)
    /\ current_result_count < met_response.count
    /\ result = _format_search_results(FirstOfTwoPages \o met_response.results)
    /\ result # _format_search_results(FirstOfTwoPages)

\* a non-literal search without refresh_cache starts, for the term t
StartsCachedSearch(t) ==
    /\ calls' = calls + 1 /\ op' = "search"
    /\ ~args'.literal /\ ~args'.refresh_cache
    /\ SearchSeriesName(args'.name, FALSE) = t

\* C7 as claimed: once a search for a term has completed on the network, every
\* later non-literal search for it without refresh_cache sends no request and
\* returns the cached results, also when the completed search found nothing.
C7_AlwaysFromCache ==
    [][\A t \in SearchTerms :
         (searched[t] # "no" /\ StartsCachedSearch(t))
            => (pc' = "done" /\ requests' = 0
                /\ result' = _format_search_results(searchCache[t]))]_vars

\* C7 as amended: once the last search for a term that completed on the network
\* found at least one result, every later non-literal search for it without
\* refresh_cache sends no request and returns the cached results.
C7_FromCacheWhenRows ==
    [][\A t \in SearchTerms :
         (searched[t] \in {"literal", "nonliteral"} /\ StartsCachedSearch(t))
            => (pc' = "done" /\ requests' = 0 /\ result' # <<>>
                /\ result' = _format_search_results(searchCache[t]))]_vars

C7_Witness ==
    /\ op = "search" /\ ~args.literal /\ ~args.refresh_cache
    /\ calls = 2 /\ pc = "done" /\ requests = 0 /\ result # <<>>
    /\ searched[CallTerm] = "nonliteral"

\* C8: a literal search is never answered from the search cache: it sends at
\* least one request, whatever the cache holds and whatever refresh_cache is.
C8_LiteralGoesOnline ==
    (op = "search" /\ args.literal) => requests >= 1

C8_Witness ==
    /\ op = "search" /\ args.literal /\ ~args.refresh_cache
    /\ cacheAtCall[1][args.name] # <<>>
    /\ pc = "done" /\ requests >= 1

\* a literal search has returned results, and the same name is now searched
\* non-literally without refresh_cache
LiteralThenNonLiteral ==
    /\ op = "search" /\ args.literal /\ pc = "done" /\ result # <<>>
    /\ calls' = calls + 1 /\ op' = "search" /\ args'.name = args.name
    /\ ~args'.literal /\ ~args'.refresh_cache

\* C9 as claimed: for every name, the non-literal search that directly follows
\* a non-empty literal search for it is served from the cache, without a request.
C9_LiteralFeedsNonLiteral ==
    [][LiteralThenNonLiteral => (pc' = "done" /\ requests' = 0)]_vars

\* C9 as amended: this holds for every name that sanitization leaves unchanged;
\* the non-literal search then returns what the literal search returned.
C9_LiteralFeedsUnchangedName ==
    [][(LiteralThenNonLiteral /\ _sanitize_title(args.name, FALSE) = args.name)
        => (pc' = "done" /\ requests' = 0 /\ result' = result)]_vars

C9_Witness ==
    /\ op = "search" /\ ~args.literal /\ ~args.refresh_cache
    /\ calls = 2 /\ pc = "done" /\ requests = 0 /\ result # <<>>
    /\ args.name = CallTerm
    /\ searched[CallTerm] = "literal"

\* C10: a search_for_series call that ends with an error, on the first page or
\* on a later one, returns nothing and leaves the cache as it was at the call.
C10_FailedSearchLeavesNothing ==
    (op = "search" /\ pc = "raised")
        => (err # NoErr /\ result = <<>> /\ caches = cacheAtCall)

C10_Witness ==
    /\ op = "search" /\ pc = "raised" /\ requests >= 2
    /\ err # NoErr /\ result = <<>> /\ caches = cacheAtCall

\* the credits of the mapped record that name the creator
CreditsOf(md, creator) == SelectSeq(md.credits, LAMBDA c : c.person = creator)

\* the credit list of the issue in hand, empty when the record has none
People == IF entity.credits.present THEN entity.credits.value ELSE <<>>

\* C15: for every creator of the credit list the mapper emits one credit per
\* declared role, in order, and exactly one credit with the empty role when the
\* creator has no role: max(1, number of roles) credits, no creator dropped.
C15_CreditPerRole ==
    md_detail # NoMd =>
        \A i \in 1..Len(People) :
            LET person == People[i]
                emitted == CreditsOf(md_detail, person.creator)
            IN IF person.role = <<>>
               THEN emitted = <<[person |-> person.creator, role |-> "", primary |-> FALSE]>>
               ELSE /\ Len(emitted) = Len(person.role)
                    /\ \A j \in 1..Len(emitted) : emitted[j].role = person.role[j].name

C15_Witness ==
    /\ md_detail # NoMd
    /\ Len(People) = 2
    /\ Len(People[1].role) = 2 /\ People[2].role = <<>>
    /\ Len(md_detail.credits) = 3
    /\ md_detail.credits[3] = [person |-> "David Finch", role |-> "", primary |-> FALSE]

\* C16: for a series of type 10 (trade paperback) the mapper sets the format to
\* "TPB", whatever type name the record carries.
C16_TradePaperbackIsTPB ==
    (md_detail # NoMd /\ entity.series_type.id = 10) => md_detail.format = Some("TPB")

\* C17: the issue count is left empty for an ongoing series (type 1) when
\* use_ongoing_issue_count is off; it is the series' issue_count for an ongoing
\* series with the option on and for every other type.
C17_OngoingCountOnlyOnRequest ==
    (md_detail # NoMd /\ entity.series_type # NoType /\ entity.issue_count > 0) =>
        md_detail.issue_count =
            IF entity.series_type.id = ongoing /\ ~settings.use_ongoing_issue_count
            THEN None ELSE Some(entity.issue_count)

\* C18: without a cover date (field absent or empty) the year is the series'
\* start year and month and day are empty; with one, all three come from it.
C18_YearFallsBackToSeriesStart ==
    md_detail # NoMd =>
        IF entity.cover_date \in {"absent", ""}
        THEN /\ md_detail.year = Some(DetailRecord(entity).series.year_began)
             /\ md_detail.month = None /\ md_detail.day = None
        ELSE <<md_detail.day, md_detail.month, md_detail.year>>
                = parse_date_str(entity.cover_date)

\* the story titles and the collection title of the issue in hand
StoryTitles == IF entity.name.present THEN entity.name.value ELSE <<>>
CollectionTitle == IF entity.title = "absent" THEN "" ELSE entity.title

\* C19 as claimed: a non-empty collection title wins over the joined story
\* titles, which win over the placeholder name of the list view.
C19_CollectionTitleWins ==
    /\ md_detail # NoMd =>
          md_detail.title = IF CollectionTitle # "" THEN Some(CollectionTitle)
                            ELSE IF StoryTitles # <<>> THEN Some(Join(StoryTitles))
                            ELSE None
    /\ md_list # NoMd => md_list.title = Some(ListRecord(entity).issue)

\* C19 as amended: a non-empty list of story titles, joined, wins over the
\* collection title; without story titles the title is the collection title
\* (empty when there is none); the placeholder name of the list view is never used.
C19_StoryTitlesWin ==
    /\ md_detail # NoMd =>
          md_detail.title = IF StoryTitles # <<>> THEN Some(Join(StoryTitles))
                            ELSE IF CollectionTitle # "" THEN Some(CollectionTitle)
                            ELSE None
    /\ md_list # NoMd => md_list.title = None

C19_Witness ==
    /\ md_detail # NoMd /\ md_list # NoMd
    /\ CollectionTitle = "Year One" /\ StoryTitles = <<"Part 1", "Part 2">>
    /\ md_detail.title = Some("Part 1; Part 2")
    /\ md_list.title = None

\* C20: the list-shaped and the detail-shaped record of one issue map to the
\* same issue identifier, series identifier, series name and issue number.
C20_ShapesAgreeOnIdentity ==
    (md_list # NoMd /\ md_detail # NoMd) =>
        /\ md_list.issue_id = md_detail.issue_id
        /\ md_list.series_id = md_detail.series_id
        /\ md_list.series = md_detail.series
        /\ md_list.issue = md_detail.issue

\* C13: however the callers interleave, the requests admitted within one window
\* (the last TicksPerWindow ticks) are never more than the budget of 30.
C13_AdmittedWithinBudget ==
    Sum(admitted) <= RateLimit

C13_Witness ==
    /\ Sum(admitted) = RateLimit
    /\ \A c \in 1..2 : callerPc[c].at = "get"
    /\ \A c \in Callers : ~ENABLED EnterRequestPath(c)

\* C14: every GET sent to the upstream, the one of check_status included, has
\* its own admission: the GETs sent are never more than the admissions.
C14_EveryGetAdmitted ==
    sent.limited + sent.direct <= acquired

\* C11: a call whose fetch succeeded does not end by raising the error of the
\* cache write that followed: the fetched records are returned all the same.
C11_CacheWriteFailureNotRaised ==
    ~(pc = "raised" /\ err = CacheWriteFailed)

\* C12: a series or issue entry is stored with the completeness flag true only
\* by the single-record fetch of that identifier, from the record this fetch
\* received; what search, issue list and number/year lookup store is flagged false.
C12_CompleteOnlyFromDetail ==
    [][/\ \A s \in SeriesIds :
            (seriesCache'[s] # seriesCache[s] /\ seriesCache'[s][1].complete)
                => (op' = "series" /\ args'.series_id = s
                    /\ seriesCache'[s][1].data = met_response'
                    /\ met_response'.id = s)
       /\ \A i \in IssueIds :
            (issueCache'[i] # issueCache[i] /\ issueCache'[i][1].complete)
                => (op' = "issue" /\ args'.issue_id = i
                    /\ issueCache'[i][1].data = met_response'
                    /\ met_response'.id = i)]_vars

C12_Witness ==
    /\ op = "issue" /\ pc = "done" /\ requests = 1
    /\ issueCache[11] # <<>> /\ issueCache[11][1].complete
    /\ "title" \in DOMAIN issueCache[11][1].data
    /\ issueCache[12] # <<>> /\ ~issueCache[12][1].complete
    /\ "title" \notin DOMAIN issueCache[12][1].data

\* a response with a decodable body that carries a detail message arrives
DetailArrives ==
    pc = "request" /\ resp' # resp /\ resp'.json /\ resp'.detail # NoDetail

\* the call ends with the error of that message, and the cache is left alone
DetailSurfaced ==
    /\ pc' = "raised"
    /\ err' = [code |-> 0, msg |-> resp'.detail]
    /\ result' = <<>>
    /\ caches' = caches

\* C21 as claimed: whenever the upstream answers with a decodable body that
\* carries a non-empty detail, whatever the status of the response, the call
\* raises the error with exactly that message and writes nothing to the cache.
C21_DetailSurfacedWhenever ==
    [][DetailArrives => DetailSurfaced]_vars

\* C21 as amended: whenever the upstream answers with status 200 and a decodable
\* body that carries a non-empty detail, the call raises the error of code 0
\* with exactly that message, returns nothing and writes nothing to the cache.
C21_DetailSurfacedOn200 ==
    [][(DetailArrives /\ resp'.status = 200) => DetailSurfaced]_vars

C21_Witness ==
    /\ op = "lookup" /\ pc = "raised" /\ requests = 2
    /\ resp.status = 200 /\ resp.detail = DetailBody.detail
    /\ err = [code |-> 0, msg |-> DetailBody.detail]
    /\ caches # cacheAtCall

\* a response arrives whose status is none of 200, 500, 401 and 403, or whose
\* status is 200 and whose content type is text/html
OtherStatusArrives ==
    /\ pc = "request" /\ resp' # resp /\ resp'.exc = "none"
    /\ \/ resp'.status \notin {200, 500, 401, 403}
       \/ resp'.status = 200 /\ resp'.ctype = "text/html"

\* C22: for a response whose status is none of 200, 500, 401, 403, and for a 200
\* response of content type text/html, _get_url_content fails at that attempt:
\* one request has been sent, no sleep was made, no body reaches the caller.
C22_OtherStatusFailsAtOnce ==
    [][OtherStatusArrives
        => (pc' = "raised" /\ err'.code \in {0, 5} /\ attempts' = 1 /\ sleeps' = 0
            /\ requests' = requests /\ met_response' = NoBody /\ result' = <<>>)]_vars

C22_Witness ==
    /\ pc = "raised" /\ resp.status = 404 /\ resp.json /\ attempts = 1 /\ sleeps = 0
    /\ err = [code |-> 5, msg |-> ""] /\ result = <<>>

\* a page of the search in flight is taken in
PageTakenIn ==
    /\ op = "search" /\ pc = "request"
    /\ \/ pc' = "request" /\ requests' = requests + 1
       \/ pc' = "done"

\* the search in flight returns after its last page
SearchReturns == op = "search" /\ pc = "request" /\ pc' = "done"

\* C23: search_for_series returns the concatenation, in page order, of the
\* result lists of the pages it fetched, no entry reordered, dropped or
\* duplicated: every page is appended to the results accumulated before it, the
\* call returns the accumulated entries one for one, and the same entries are
\* the rows of the search cache; a later search served from the cache returns
\* the cached rows one for one, so the same entries in the same order as the
\* search that populated the cache.
C23_ResultsInPageOrder ==
    [][/\ PageTakenIn => search_results' = search_results \o met_response'.results
       /\ SearchReturns =>
            /\ Len(result') = Len(search_results')
            /\ \A i \in 1..Len(result') : result'[i] = FormatRecord(search_results'[i])
            /\ searchCache'[CallTerm] = search_results'
       /\ \A t \in SearchTerms :
            (StartsCachedSearch(t) /\ pc' = "done" /\ requests' = 0) =>
                /\ Len(result') = Len(searchCache[t])
                /\ \A i \in 1..Len(result') : result'[i] = FormatRecord(searchCache[t][i])
                /\ (op = "search" /\ pc = "done" /\ requests > 0 /\ CallTerm = t)
                      => result' = result]_vars

C23_Witness ==
    /\ op = "search" /\ args.refresh_cache /\ pc = "done" /\ requests = 2
    /\ FirstOfTwoPages = <<MatchingSeries>>
    /\ met_response.results = <<OtherSeries>>
    /\ result = <<FormatRecord(MatchingSeries), FormatRecord(OtherSeries)>>
    /\ searchCache[CallTerm] = <<MatchingSeries, OtherSeries>>

\* C24: during a search_for_series call with a progress callback the callback
\* has been invoked once for every page fetched, so as many times as pages were
\* fetched, the last time with current equal to the number of results
\* accumulated so far; a search served from the cache does not invoke it.
C24_CallbackOncePerPage ==
    (op = "search" /\ args.callback) =>
        /\ pc = "request" => progress.n = requests - 1
        /\ pc = "done" => progress.n = requests
        /\ pc = "raised" => progress.n \in {requests - 1, requests}
        /\ (pc \in {"request", "done"} /\ progress.n > 0) =>
              /\ progress.current = ListLen(search_results)
              /\ progress.current = current_result_count

C24_Witness ==
    /\ op = "search" /\ args.callback /\ pc = "done" /\ requests = 2
    /\ progress.n = 2
    /\ progress.current = MatchingSeries.rep + OtherSeries.rep
    /\ Len(result) = 2

\* the first page of the search in flight arrives and reports a count of 0
EmptyFirstPage ==
    /\ op = "search" /\ pc = "request" /\ requests = 1
    /\ Answered(resp') /\ resp'.count = 0

\* C25: a search whose first page reports a total count of 0 returns the empty
\* sequence, without raising, after exactly one request.
C25_NoResultsReturnsEmpty ==
    [][EmptyFirstPage => (pc' = "done" /\ result' = <<>> /\ requests' = 1)]_vars

\* the cache held a complete entry for the series of the fetch_series in flight
CompleteSeriesAtCall ==
    /\ op = "series"
    /\ SeriesAtCall(args.series_id) # <<>>
    /\ SeriesAtCall(args.series_id)[1].complete

\* the record carries the series image of a cover attempt, be it empty
CoverAttempted(series) ==
    \E i \in 1..Len(series.associated) : series.associated[i].id = -999

\* C26 as claimed: fetch_series(id) sends no request whenever the cache holds a
\* complete series entry for id, under every setting of the flags, the one for
\* series covers included.
C26_CompleteSeriesNeverRefetched ==
    CompleteSeriesAtCall => requests = 0

\* C26 as amended: fetch_series(id) sends no request, and returns the cached
\* record, whenever the cache holds a complete series entry for id and either
\* find_series_covers is off or the entry carries the series image of an earlier
\* cover attempt (which may be empty).
C26_CompleteSeriesWithCoverNotRefetched ==
    (CompleteSeriesAtCall
     /\ (~settings.find_series_covers
         \/ CoverAttempted(SeriesAtCall(args.series_id)[1].data)))
        => (requests = 0 /\ pc = "done"
            /\ result = <<_format_series(SeriesAtCall(args.series_id)[1].data)>>)

C26_Witness ==
    /\ CompleteSeriesAtCall /\ settings.find_series_covers
    /\ SeriesImage(SeriesAtCall(args.series_id)[1].data) = ""
    /\ CoverAttempted(SeriesAtCall(args.series_id)[1].data)
    /\ requests = 0 /\ pc = "done" /\ result[1].image_url = ""

\* the cache held no complete entry for the issue of the fetch in flight
IssueNotCompleteAtCall ==
    /\ op = "issue"
    /\ \/ cacheAtCall[3][args.issue_id] = <<>>
       \/ ~cacheAtCall[3][args.issue_id][1].complete

\* C27: fetching an issue by id when the cache holds no entry for it, or only
\* an incomplete one, performs exactly one detail request, and when the upstream
\* answers it successfully the call does not raise: it writes the response to the
\* issue cache as complete and returns the mapped record.
C27_MissFetchesAndStores ==
    IssueNotCompleteAtCall =>
        /\ requests = 1
        /\ (pc # "request" /\ Answered(resp)) =>
              /\ pc = "done"
              /\ issueCache[args.issue_id] # <<>>
              /\ issueCache[args.issue_id][1].complete
              /\ issueCache[args.issue_id][1].data.id = args.issue_id
              /\ result = <<_map_comic_issue_to_metadata(issueCache[args.issue_id][1].data)>>

\* the series types that have a format label: one-shot, annual, hardcover,
\* graphic novel, trade paperback and limited series
LabelledTypes == {5, 6, 8, 9, 10, 11}

\* C28: the mapper emits a format label only for the series types one-shot,
\* annual, hardcover, graphic novel, trade paperback and limited series; for an
\* ongoing or a cancelled series the format of the output is empty.
C28_FormatOnlyForLabelledTypes ==
    (md_detail # NoMd /\ entity.series_type # NoType) =>
        (md_detail.format # None <=> entity.series_type.id \in LabelledTypes)

\* the rating of the issue in hand, "" when the record has none
RatingName == IF entity.rating = "absent" THEN "" ELSE entity.rating

\* C29: when the maturity rating of the issue has the name "Unknown" the mapper
\* leaves the maturity rating of the output empty; any other rating name is
\* copied to the output.
C29_UnknownRatingDropped ==
    md_detail # NoMd =>
        md_detail.maturity_rating =
            IF RatingName \in {"", "Unknown"} THEN None ELSE Some(RatingName)

C29_Witness ==
    /\ md_detail # NoMd /\ md_list # NoMd
    /\ entity.rating = "Unknown"
    /\ DetailRecord(entity).rating.name = "Unknown"
    /\ md_detail.maturity_rating = None
    /\ md_list.maturity_rating = None

\* a public operation is answered from the cache: the call returns without a request
AnsweredFromCache == calls' = calls + 1 /\ pc' = "done" /\ requests' = 0

\* C30: a public operation that is answered entirely from the cache (search
\* hit, complete series hit, usable issue list, complete issue hit, number
\* lookup hit) leaves every cache entry as it was, also when the record it
\* returns is altered on the way (image URL blanked, series id or issue count
\* injected).
C30_CacheAnswerLeavesCache ==
    [][AnsweredFromCache => caches' = caches]_vars

C30_Witness ==
    /\ op = "issue" /\ pc = "done" /\ requests = 0
    /\ result[1].issue_count = Some(2)
    /\ "issue_count" \notin DOMAIN issueCache[args.issue_id][1].data.series
    /\ caches = cacheAtCall
    /\ seriesCache[1] # <<>> /\ seriesCache[1][1].complete

\* a page of the non-literal search in flight is taken in and the call goes on
\* or returns
NonLiteralPage ==
    /\ op = "search" /\ ~args.literal /\ pc = "request"
    /\ Answered(resp') /\ pc' # "raised"

\* C31: in a non-literal search, when the page fetched last holds an entry whose
\* name fails the similarity test, the call returns without a further page
\* request (with one request in all when that page is the first); when the page
\* fetched last holds no such entry and fewer results than the reported count
\* have been taken in, the next page is requested, whatever the pages before
\* it held; a page request that raises is followed by no request either.
C31_FailingEntryStopsPaging ==
    [][/\ NonLiteralPage =>
            /\ HasFailingEntry(met_response'.results) =>
                  pc' = "done" /\ requests' = requests
            /\ (/\ ~HasFailingEntry(met_response'.results)
                /\ current_result_count' < met_response'.count) =>
                  pc' = "request" /\ requests' = requests + 1
       /\ (op = "search" /\ pc = "request" /\ pc' = "raised") =>
            requests' = requests]_vars

C31_Witness ==
    /\ op = "search" /\ ~args.literal /\ pc = "done" /\ requests = 1
    /\ met_response.results = <<MatchingSeries, OtherSeries>>
    /\ current_result_count < met_response.count
    /\ Len(result) = 2

-----------------------------------------------------------------------------
(* The paging loops past the requests that are counted *)

\* the page number of the passes that follow request MaxRequests, kept by its parity
PageBeyond(page) == IF page = MaxRequests THEN MaxRequests + 1 ELSE MaxRequests

\* search_for_series: a pass of the loop after MaxRequests requests, which takes
\* a page in and asks for the next one; these requests are no longer counted
SeriesPageBeyond ==
    /\ pc = "request"
    /\ op = "search"
    /\ requests = MaxRequests
    /\ \E r \in Responses, body \in SeriesBodies :
         LET search_series_name == SearchSeriesName(args.name, args.literal)
             count == current_result_count + ListLen(body.results)
             acc == Extend(search_results, body.results)
             stop_searching == /\ ~args.literal
                               /\ StopSearching(search_series_name, body.results,
                                                args.series_match_thresh)
         IN /\ Answered(r)
            /\ Len(acc) <= MaxChunks
            /\ body.count = met_response.count
            /\ ListLen(acc) <= body.count
            /\ count < body.count /\ ~stop_searching
            /\ Received(r, body.count)
            /\ progress' = Invoke(args.callback, count, total_result_count)
            /\ Accumulate(body, acc, count, total_result_count)
            /\ params' = [page |-> PageBeyond(params.page)]
            /\ tries' = 0
            /\ attempts' = 0
            /\ sleeps' = 0
    /\ UNCHANGED <<pc, err, result, caches, searched, requests>>
    /\ UNCHANGED <<op, args, calls, cacheAtCall>>
    /\ UNCHANGED <<settings, mapvars, limvars>>

\* the outstanding request of a search gets its answer
SearchAnswered == RequestFails \/ SeriesPageArrives \/ SeriesPageBeyond

NextSearchLive ==
    \/ \E n \in Names, refresh_cache \in BOOLEAN, literal \in BOOLEAN :
          search_for_series(n, FALSE, refresh_cache, literal)
    \/ RequestFails
    \/ SeriesPageArrives
    \/ SeriesPageBeyond

\* the call is synchronous and every GET comes back, with a response or with an
\* exception: a request that is outstanding is answered
SpecSearchLive == Init /\ [][NextSearchLive]_vars /\ WF_vars(SearchAnswered)

\* C32: every search_for_series call that has a page request outstanding ends,
\* by returning or by raising, whatever the upstream answers.
C32_SearchTerminates ==
    (op = "search" /\ pc = "request") ~> (pc \in {"done", "raised"})

\* fetch_issues_in_series: a pass of the loop after MaxRequests requests, which
\* takes a page in and asks for the next one; these requests are no longer counted
IssuesPageBeyond ==
    /\ pc = "request"
    /\ op = "issues"
    /\ requests = MaxRequests
    /\ \E r \in Responses, body \in IssueBodies :
         LET count == current_result_count + Len(body.results)
             acc == search_results \o body.results
         IN /\ Answered(r)
            /\ Len(acc) <= MaxChunks
            /\ body.count = met_response.count
            /\ Len(acc) <= body.count
            /\ count < total_result_count
            /\ Received(r, body.count)
            /\ Accumulate(body, acc, count, total_result_count)
            /\ params' = [page |-> PageBeyond(params.page)]
            /\ tries' = 0
            /\ attempts' = 0
            /\ sleeps' = 0
    /\ UNCHANGED <<pc, err, result, caches, searched, requests, progress>>
    /\ UNCHANGED <<op, args, calls, cacheAtCall>>
    /\ UNCHANGED <<settings, mapvars, limvars>>

\* the outstanding request of an issue list gets its answer
IssuesAnswered == RequestFails \/ IssuesPageArrives \/ IssuesPageBeyond

NextIssuesLive ==
    \/ \E s \in SeriesIds : fetch_issues_in_series(s)
    \/ RequestFails
    \/ IssuesPageArrives
    \/ IssuesPageBeyond

\* as for the search: a request that is outstanding is answered; on an empty
\* cache every call goes to the network
SpecIssuesLive == Init /\ [][NextIssuesLive]_vars /\ WF_vars(IssuesAnswered)

\* C33: every fetch_issues_in_series call that has a page request outstanding
\* ends, by returning or by raising, whatever the upstream answers.
C33_IssueListTerminates ==
    (op = "issues" /\ pc = "request") ~> (pc \in {"done", "raised"})

\* C34: on every invocation of the progress callback of a search the current
\* count reported is at most the total reported, and the total reported is at
\* most 500.
C34_CurrentWithinTotal ==
    (op = "search" /\ args.callback /\ progress.n > 0) =>
        /\ progress.current <= progress.total
        /\ progress.total <= 500

\* C35: the completeness flag of a cache entry never goes back: a series entry
\* or an issue entry that is stored as complete is there, and complete, after
\* every step of every operation.
C35_CompleteStaysComplete ==
    [][/\ \A s \in SeriesIds :
            (seriesCache[s] # <<>> /\ seriesCache[s][1].complete)
               => (seriesCache'[s] # <<>> /\ seriesCache'[s][1].complete)
       /\ \A i \in IssueIds :
            (issueCache[i] # <<>> /\ issueCache[i][1].complete)
               => (issueCache'[i] # <<>> /\ issueCache'[i][1].complete)]_vars

\* a fetch_issues_in_series that fetched its list from the network has returned
\* and the list of the same series is asked for again
RepeatsIssueList ==
    /\ op = "issues" /\ pc = "done" /\ requests > 0
    /\ calls' = calls + 1
    /\ op' = "issues" /\ args'.series_id = args.series_id

\* C36 as claimed: after fetch_issues_in_series(s) has fetched the issue list
\* from the network and returned, the repeated call sends no request and
\* returns the same issues, whatever the cache held before the first call.
C36_RepeatFromCache ==
    [][RepeatsIssueList => (pc' = "done" /\ requests' = 0 /\ result' = result)]_vars

\* C36 as amended: the repeated call sends no request exactly when the cache
\* holds a series entry for s whose issue_count is the number of issue entries
\* now cached for s, and it then returns the cached entries of s, among them
\* every issue the first call returned; without a series entry for s, or with
\* another count, it requests the list again.
C36_RepeatFromCacheWhenCounted ==
    [][RepeatsIssueList =>
         IF /\ seriesCache[args.series_id] # <<>>
            /\ Len(RowsOf(issueCache, IssueIds, args.series_id))
                 = seriesCache[args.series_id][1].data.issue_count
         THEN /\ pc' = "done" /\ requests' = 0
              /\ Len(result') = Len(RowsOf(issueCache, IssueIds, args.series_id))
              /\ \A i \in 1..Len(result) : \E j \in 1..Len(result') : result'[j] = result[i]
         ELSE pc' = "request" /\ requests' = 1]_vars

C36_Witness ==
    /\ op = "issues" /\ pc = "done" /\ requests > 0 /\ calls < MaxCalls
    /\ CachedIssuesAtCall(args.series_id) = <<>>
    /\ seriesCache[args.series_id] # <<>>
    /\ seriesCache[args.series_id][1].data.issue_count = 2
    /\ Len(RowsOf(issueCache, IssueIds, args.series_id)) = 2
    /\ Len(result) = 2

\* a fetch_series has returned and the same series is asked for again
RepeatsSeries ==
    /\ op = "series" /\ pc = "done"
    /\ calls' = calls + 1
    /\ op' = "series" /\ args'.series_id = args.series_id

\* C37: after fetch_series(id) has returned, the repeated fetch_series(id) sends
\* no request and returns the same series, with the covers option off and with
\* it on, also when the cover lookup of the first call found no image.
C37_RepeatedSeriesFromCache ==
    [][RepeatsSeries => (pc' = "done" /\ requests' = 0 /\ result' = result)]_vars

C37_Witness ==
    /\ op = "series" /\ args.series_id = 2 /\ calls = 2
    /\ pc = "done" /\ requests = 0
    /\ settings.find_series_covers
    /\ HasSeriesImage(seriesCache[2][1].data)
    /\ result = <<_format_series(SeriesDetail(2))>>
    /\ result[1].image_url = ""

\* C38: a lookup by number and year returns only records that have the issue
\* number asked for and a cover date in the year asked for, and at most one
\* record for each series of its list.
C38_LookupMatchesNumberAndYear ==
    (op = "lookup" /\ pc = "done" /\ args.year # 0) =>
        /\ \A i \in 1..Len(result) :
              /\ result[i].issue = Some(args.issue_number)
              /\ result[i].year = Some(args.year)
        /\ \A i, j \in 1..Len(result) :
              result[i].series_id = result[j].series_id => i = j
        /\ \A i \in 1..Len(result) :
              \E k \in 1..Len(args.series_id_list) :
                 result[i].series_id = Some(ToStr(args.series_id_list[k]))

\* the series of the list of the lookup in flight that come before the series
\* of its outstanding request
SeriesDoneBefore ==
    { args.series_id_list[k] : k \in { n \in 1..Len(args.series_id_list) :
          \E m \in n+1..Len(args.series_id_list) :
             args.series_id_list[m] = params.series_id } }

\* C39 as claimed: a public operation that ends by raising leaves the cache as
\* it was when the call started.
C39_FailedCallLeavesCache ==
    pc = "raised" => caches = cacheAtCall

\* C39 as amended: a search, a fetch of a series, of an issue list or of an
\* issue that ends by raising leaves the cache as it was when the call started;
\* a lookup by number and year that ends by raising leaves the search rows and
\* the series entries as they were, and has changed issue entries only by
\* storing, flagged incomplete, the issue found for a series of its list that
\* comes before the series whose request failed.
C39_FailedCallKeepsOnlyEarlierLookups ==
    pc = "raised" =>
        /\ searchCache = cacheAtCall[1]
        /\ seriesCache = cacheAtCall[2]
        /\ \A i \in IssueIds :
              issueCache[i] # cacheAtCall[3][i] =>
                 /\ op = "lookup"
                 /\ issueCache[i] # <<>>
                 /\ ~issueCache[i][1].complete
                 /\ issueCache[i][1].series_id \in SeriesDoneBefore
                 /\ issueCache[i][1].data.series.id = issueCache[i][1].series_id

C39_Witness ==
    /\ op = "lookup" /\ pc = "raised" /\ requests = 2
    /\ args.series_id_list = <<1, 2>> /\ params.series_id = 2
    /\ cacheAtCall[3][11] = <<>>
    /\ issueCache[11] # <<>> /\ issueCache[11][1].series_id = 1
    /\ result = <<>>

\* C40: a call of _get_url_content sends at most 3 GETs, and the answer to each
\* of them either ends the call or starts a further pass within that bound; the
\* call ends by raising, or by returning the decoded body of a response of
\* status 200, and a body of a response of another status is never returned.
C40_BoundedGetsBodyOnlyFrom200 ==
    [][pc = "request" =>
         /\ attempts + 1 <= 3
         /\ \/ pc' = "raised"
            \/ /\ pc' \in {"request", "done"}
               /\ resp'.exc = "none" /\ resp'.status = 200 /\ resp'.json
               /\ resp'.ctype # "text/html"
               /\ pc' = "request" => (requests' = requests + 1 /\ tries' = 0)
            \/ /\ pc' = "request" /\ requests' = requests
               /\ tries' = tries + 1 /\ tries' < 3]_vars

C40_Witness ==
    /\ pc = "raised" /\ resp.status = 500 /\ resp.json /\ resp.detail = NoDetail
    /\ attempts = 1 /\ sleeps = 1
    /\ err = [code |-> 5, msg |-> ""] /\ result = <<>>

====
